---- MODULE Spec2Model ----
(***************************************************************************)
(* Model of the YouTube ad-metrics ETL pipeline: run_pipeline              *)
(* (src/src/pipeline.py) driving YouTubeExtractor (src/src/extract.py)     *)
(* and DataTransformer (src/src/transform.py).                             *)
(*                                                                         *)
(* Tables (pandas DataFrames) are sequences of records, one per row, in    *)
(* row order; the field idx is the row's index label.  A nullable cell is  *)
(* a tuple: <<>> is NaN / NaT / a missing value, <<x>> is the value x.     *)
(*                                                                         *)
(* Floating-point columns are kept as exact scaled integers:               *)
(*   base_ad_rate      in hundredths   (0.25  -> 25)                       *)
(*   tier_multiplier   in tenths       (1.2   -> 12)                       *)
(*   ad_density        in thousandths  (0.18  -> 180)                      *)
(*   ad_ratio          in hundredths of a percent (11.11 -> 1111)          *)
(*   engagement_rate, revenue_pressure in thousandths                      *)
(* duration_minutes = duration_seconds / 60 is kept as the number of       *)
(* seconds, and the bin edges it is compared with are scaled by 60.        *)
(* Timestamps are whole hours since 2024-01-01T00:00:00Z.                  *)
(***************************************************************************)
EXTENDS Integers, Sequences, FiniteSets, TLC

VARIABLES
    pc,             \* position of run_pipeline / process_pipeline
    exit_status,    \* process exit status: NaN while running, 0 returned, 1 sys.exit(1) or uncaught exception
    calls,          \* the operations invoked so far
    df_raw,         \* run_pipeline's df_raw, the extractor's table
    raw_file,       \* contents of data/raw/youtube_data_*.csv
    data,           \* DataTransformer.data      (<<>> while None)
    processed,      \* DataTransformer.processed (<<>> while None)
    processed_file, \* contents of data/processed/processed_*.csv
    now             \* the pd.Timestamp.now() sampled by add_features, in hours

vars == <<pc, exit_status, calls, df_raw, raw_file, data, processed, processed_file, now>>

----------------------------------------------------------------------------
(* Bounds of the model *)

\* Largest number of rows of a raw table in the multi-row specification.
MaxRows == 2

\* The single-row tables hold every duration of 1..MaxShortDuration seconds
\* (and the durations around the bin edges and the rounding ties).
MaxShortDuration == 30

----------------------------------------------------------------------------
(* Nullable cells *)

NaN == <<>>

Some(x) == <<x>>

isna(v) == v = NaN

Val(v) == v[1]

fillna(v, d) == IF isna(v) THEN Some(d) ELSE v

\* A record r extended (or overwritten) with the columns of s.
Assign(r, s) == [f \in (DOMAIN r) \cup (DOMAIN s) |-> IF f \in DOMAIN s THEN s[f] ELSE r[f]]

\* The rows of t at the positions in S, in order (boolean-mask indexing).
RECURSIVE RowsAt(_, _, _)
RowsAt(t, S, i) ==
    IF i > Len(t) THEN <<>>
    ELSE (IF i \in S THEN <<t[i]>> ELSE <<>>) \o RowsAt(t, S, i + 1)

Abs(n) == IF n < 0 THEN -n ELSE n

\* numpy / pandas round(): n/d rounded to the nearest integer, ties to even.
RoundHalfEven(n, d) ==
    LET an == Abs(n)
        ad == Abs(d)
        q  == an \div ad
        r  == an % ad
        m  == IF 2 * r < ad THEN q
              ELSE IF 2 * r > ad THEN q + 1
              ELSE IF q % 2 = 0 THEN q ELSE q + 1
    IN  IF (n < 0) = (d < 0) THEN m ELSE -m

Max(a, b) == IF a >= b THEN a ELSE b

----------------------------------------------------------------------------
(* pandas.cut with the default right = True, include_lowest = False:       *)
(* bin i is (edges[i], edges[i+1]], the last edge being +inf; a value in   *)
(* no bin is NaN.                                                          *)

cut(x, edges, labels) ==
    LET n == Len(edges)
        hit == {i \in 1..n : /\ x > edges[i]
                             /\ (i < n => x <= edges[i + 1])}
    IN  IF hit = {} THEN NaN ELSE Some(labels[CHOOSE i \in hit : TRUE])

\* Series.astype(str): NaN becomes the string 'nan'.
astype_str(v) == IF isna(v) THEN "nan" ELSE Val(v)

----------------------------------------------------------------------------
(* DataTransformer.clean_data *)

\* Faulty variant of drop_duplicates: keep = 'last'.
drop_duplicates_keep_last(t) ==
    RowsAt(t, {i \in 1..Len(t) : \A j \in (i + 1)..Len(t) : t[j].video_id # t[i].video_id}, 1)

\* df.drop_duplicates(subset=['video_id']): keep = 'first'.
drop_duplicates(t) ==
    RowsAt(t, {i \in 1..Len(t) : \A j \in 1..(i - 1) : t[j].video_id # t[i].video_id}, 1)

\* Faulty variant of fill_counters: numeric_cols lacks 'comment_count'.
fill_counters_two_cols(r) ==
    Assign(r, [view_count |-> fillna(r.view_count, 0),
               like_count |-> fillna(r.like_count, 0)])

\* df[numeric_cols] = df[numeric_cols].fillna(0)
fill_counters(r) ==
    Assign(r, [view_count    |-> fillna(r.view_count, 0),
               like_count    |-> fillna(r.like_count, 0),
               comment_count |-> fillna(r.comment_count, 0)])

\* Faulty variant of duration_mask: df['duration_seconds'] >= 0.
duration_mask_ge0(r) == ~isna(r.duration_seconds) /\ Val(r.duration_seconds) >= 0

\* The mask df['duration_seconds'] > 0 of one row: a comparison with NaN is False.
duration_mask(r) == ~isna(r.duration_seconds) /\ Val(r.duration_seconds) > 0

\* df = df[df['duration_seconds'] > 0]
filter_duration(t) == RowsAt(t, {i \in 1..Len(t) : duration_mask(t[i])}, 1)

\* The timestamps pd.to_datetime can parse, as hours since 2024-01-01T00:00:00Z.
Timestamps ==
    [s \in {"2024-01-01T00:00:00Z", "2024-01-01T18:00:00Z", "2024-01-03T00:00:00Z"} |->
        CASE s = "2024-01-01T00:00:00Z" -> 0
          [] s = "2024-01-01T18:00:00Z" -> 18
          [] s = "2024-01-03T00:00:00Z" -> 48]

\* Whether pd.to_datetime accepts the cell: NaN and the empty string give NaT,
\* any other string that is no timestamp raises.
parseable(v) == isna(v) \/ Val(v) = "" \/ Val(v) \in DOMAIN Timestamps

\* pd.to_datetime of one parseable cell.
to_datetime(v) ==
    IF isna(v) \/ Val(v) = "" THEN NaN ELSE Some(Timestamps[Val(v)])

\* The table on which clean_data reaches line 36: deduplicated, counters
\* filled, non-positive durations dropped.
clean_filtered(t) ==
    LET d == drop_duplicates(t)
    IN  filter_duration([i \in 1..Len(d) |-> fill_counters(d[i])])

\* pd.to_datetime(df['published_at']) raises (errors = 'raise' is the default)
\* when a row that is still in the table has an unparseable published_at.
clean_raises(t) ==
    \E i \in 1..Len(clean_filtered(t)) : ~parseable(clean_filtered(t)[i].published_at)

\* The table clean_data returns and stores in self.data when it does not raise.
clean_table(t) ==
    LET f == clean_filtered(t)
    IN  [i \in 1..Len(f) |-> Assign(f[i], [published_at |-> to_datetime(f[i].published_at)])]

----------------------------------------------------------------------------
(* DataTransformer.calculate_metrics *)

SecondsPerMinute == 60

category_rates ==
    [c \in {"Music", "Gaming", "People & Blogs", "Entertainment",
            "News & Politics", "Sports", "Science & Technology"} |->
        CASE c = "Music"                -> 15
          [] c = "Gaming"               -> 25
          [] c = "People & Blogs"       -> 22
          [] c = "Entertainment"        -> 30
          [] c = "News & Politics"      -> 35
          [] c = "Sports"               -> 32
          [] c = "Science & Technology" -> 22]

\* Series.map(dict): a key that is not in the dict (NaN included) maps to NaN.
map_dict(v, d) == IF ~isna(v) /\ Val(v) \in DOMAIN d THEN Some(d[Val(v)]) ELSE NaN

\* Faulty variant of base_ad_rate: fillna(0) instead of fillna(0.25).
base_ad_rate_default0(category_name) == Val(fillna(map_dict(category_name, category_rates), 0))

\* df['category_name'].map(category_rates).fillna(0.25), in hundredths.
base_ad_rate(category_name) == Val(fillna(map_dict(category_name, category_rates), 25))

view_bins == <<0, 10000, 100000, 1000000, 10000000>>

tier_labels == <<"Micro", "Small", "Medium", "Large", "Enterprise">>

\* pd.cut(df['view_count'], bins, labels) followed by astype(str).
channel_tier(view_count) == astype_str(cut(view_count, view_bins, tier_labels))

tier_multipliers ==
    [c \in {"Micro", "Small", "Medium", "Large", "Enterprise"} |->
        CASE c = "Micro"      -> 12
          [] c = "Small"      -> 11
          [] c = "Medium"     -> 10
          [] c = "Large"      -> 9
          [] c = "Enterprise" -> 8]

\* df['channel_tier'].map(tier_multipliers).fillna(1.0), in tenths.
tier_multiplier(tier) == Val(fillna(map_dict(Some(tier), tier_multipliers), 10))

\* base_ad_rate * tier_multiplier, in thousandths.
ad_density(rate, multiplier) == rate * multiplier

\* Faulty variant of estimated_ads: the clip(lower=1) is left out.
estimated_ads_no_clip(density, duration_seconds) ==
    RoundHalfEven(density * duration_seconds, 1000 * SecondsPerMinute)

\* (ad_density * duration_minutes).clip(lower=1).round()
estimated_ads(density, duration_seconds) ==
    RoundHalfEven(Max(density * duration_seconds, 1000 * SecondsPerMinute),
                  1000 * SecondsPerMinute)

\* Faulty variant of ad_time_seconds: 30 seconds per ad.
ad_time_seconds_30(ads) == ads * 30

\* estimated_ads * 20
ad_time_seconds(ads) == ads * 20

\* (ad_time_seconds / duration_seconds * 100).round(2), in hundredths of a percent.
ad_ratio(ad_time, duration_seconds) == RoundHalfEven(ad_time * 100 * 100, duration_seconds)

\* Series.replace(a, b) of one cell.
replace(x, a, b) == IF x = a THEN b ELSE x

\* Faulty variant of engagement_rate: the denominator is view_count + 1.
engagement_rate_plus_one(likes, comments, views) ==
    RoundHalfEven((likes + comments) * 100 * 1000, views + 1)

\* ((like_count + comment_count) / view_count.replace(0, 1) * 100).round(3), in thousandths.
engagement_rate(likes, comments, views) ==
    RoundHalfEven((likes + comments) * 100 * 1000, replace(views, 0, 1))

\* (ad_density*0.5 + ad_ratio*0.01*0.3 + (view_count/1e6)*0.2).round(3), in thousandths:
\* density/1000*0.5 + ratio/100*0.003 + views*0.0000002, all times 1000.
revenue_pressure(density, ratio, views) ==
    RoundHalfEven(density * 5000 + ratio * 300 + views * 2, 10000)

\* The columns calculate_metrics adds to one row of the cleaned table.
metrics_row(r) ==
    LET rate == base_ad_rate(r.category_name)
        tier == channel_tier(Val(r.view_count))
        mult == tier_multiplier(tier)
        dens == ad_density(rate, mult)
        ads  == estimated_ads(dens, Val(r.duration_seconds))
        secs == ad_time_seconds(ads)
        rat  == ad_ratio(secs, Val(r.duration_seconds))
    IN  Assign(r, [base_ad_rate     |-> rate,
                   channel_tier     |-> tier,
                   tier_multiplier  |-> mult,
                   ad_density       |-> dens,
                   estimated_ads    |-> ads,
                   ad_time_seconds  |-> secs,
                   ad_ratio         |-> rat,
                   engagement_rate  |-> engagement_rate(Val(r.like_count),
                                                        Val(r.comment_count),
                                                        Val(r.view_count)),
                   revenue_pressure |-> revenue_pressure(dens, rat, Val(r.view_count))])

----------------------------------------------------------------------------
(* DataTransformer.add_features *)

HoursPerDay == 24

\* (pd.Timestamp.now() - published_at).dt.days: whole days, rounded down
\* (also below zero); NaT gives NaN.
age_days(t_now, published_at) ==
    IF isna(published_at) THEN NaN
    ELSE Some((t_now - Val(published_at)) \div HoursPerDay)

duration_bins == <<0, 5, 15, 30>>

duration_labels == <<"Short", "Medium", "Long", "Very Long">>

\* pd.cut(df['duration_minutes'], bins, labels); duration_minutes is
\* duration_seconds / 60, so the edges are compared in seconds.
duration_category(duration_seconds) ==
    cut(duration_seconds,
        [i \in 1..Len(duration_bins) |-> duration_bins[i] * SecondsPerMinute],
        duration_labels)

\* (df['view_count'] / df['age_days'].replace(0, 1)).round()
views_per_day(views, age) ==
    IF isna(age) THEN NaN ELSE Some(RoundHalfEven(views, replace(Val(age), 0, 1)))

\* The columns add_features adds to one processed row.
features_row(r, t_now) ==
    LET age == age_days(t_now, r.published_at)
    IN  Assign(r, [age_days          |-> age,
                   duration_category |-> duration_category(Val(r.duration_seconds)),
                   views_per_day     |-> views_per_day(Val(r.view_count), age)])

----------------------------------------------------------------------------
(* CSV files: YouTubeExtractor.save_data / DataTransformer.load_data /      *)
(* DataTransformer.save_processed                                          *)

\* One cell of a string column as to_csv writes it and read_csv reads it
\* back: the empty string and NaN are both an empty field, read as NaN.
csv_text(v) == IF isna(v) \/ Val(v) = "" THEN NaN ELSE v

\* df.to_csv(filepath, index=False): the index is not written; text_cols
\* are the columns of the table that hold strings.
to_csv(t, text_cols) ==
    [i \in 1..Len(t) |->
        [f \in (DOMAIN t[i]) \ {"idx"} |->
            IF f \in text_cols THEN csv_text(t[i][f]) ELSE t[i][f]]]

\* pd.read_csv(path): the rows get a fresh RangeIndex 0, 1, ...
read_csv(file) == [i \in 1..Len(file) |-> Assign(file[i], [idx |-> i - 1])]

----------------------------------------------------------------------------
(* Inputs *)

\* Rows of the multi-row raw tables: duplicates, missing counters,
\* missing and non-positive durations, malformed timestamps.
RawRows ==
    {[video_id         |-> v,
      category_name    |-> Some("Music"),
      published_at     |-> p,
      duration_seconds |-> d,
      view_count       |-> c[1],
      like_count       |-> c[2],
      comment_count    |-> c[3]] :
        v \in {"a", "b"},
        p \in {Some("2024-01-01T00:00:00Z"), Some("not-a-date")},
        d \in {NaN, Some(0), Some(240)},
        c \in {<<Some(1000), Some(100), Some(10)>>,
               <<NaN, Some(100), Some(10)>>,
               <<Some(1000), NaN, NaN>>}}

\* Rows of the single-row raw tables: every bin edge of view_count and of
\* the duration, every category of the rate table and some outside it.
WideRows ==
    {[video_id         |-> "a",
      category_name    |-> c,
      published_at     |-> p,
      duration_seconds |-> d,
      view_count       |-> v,
      like_count       |-> Some(100),
      comment_count    |-> Some(10)] :
        c \in {NaN, Some("Education"), Some("Unknown"), Some("Music"), Some("Gaming"),
               Some("People & Blogs"), Some("Entertainment"), Some("News & Politics"),
               Some("Sports"), Some("Science & Technology")},
        p \in {Some(""), Some("not-a-date"), Some("2024-01-01T00:00:00Z"),
               Some("2024-01-01T18:00:00Z")},
        d \in {NaN, Some(-5), Some(0)} \cup
              {Some(x) : x \in (1..MaxShortDuration) \cup
                                {60, 214, 215, 299, 300, 301, 360, 600,
                                 899, 900, 901, 1799, 1800, 1801, 3600}},
        v \in {NaN} \cup
              {Some(x) : x \in {0, 1, 9999, 10000, 10001, 99999, 100000, 100001, 999999,
                                1000000, 1000001, 9999999, 10000000, 10000001}}}

\* pd.DataFrame(all_videos): the rows get the RangeIndex 0, 1, ...
DataFrame(rows) == [i \in 1..Len(rows) |-> Assign(rows[i], [idx |-> i - 1])]

RawTables == {DataFrame(rows) : rows \in UNION {[1..k -> RawRows] : k \in 0..MaxRows}}

RowTables == {DataFrame(rows) : rows \in {<<>>} \cup {<<r>> : r \in WideRows}}

\* The values pd.Timestamp.now() takes, in hours since 2024-01-01T00:00:00Z.
NowHours == {12, 30, 72}

----------------------------------------------------------------------------
(* run_pipeline *)

Init ==
    /\ pc = "YouTubeExtractor"
    /\ exit_status = NaN
    /\ calls = {}
    /\ df_raw = <<>>
    /\ raw_file = <<>>
    /\ data = <<>>
    /\ processed = <<>>
    /\ processed_file = <<>>
    /\ now = NaN

\* extractor = YouTubeExtractor(): raises ValueError without an API key.
new_extractor ==
    /\ pc = "YouTubeExtractor"
    /\ \E has_key \in BOOLEAN :
        IF has_key
        THEN pc' = "collect_by_categories" /\ UNCHANGED exit_status
        ELSE pc' = "error" /\ exit_status' = Some(1)
    /\ calls' = calls \cup {"YouTubeExtractor"}
    /\ UNCHANGED <<df_raw, raw_file, data, processed, processed_file, now>>

\* df_raw = extractor.collect_by_categories(...): whatever the API yields.
collect_by_categories(Tables) ==
    /\ pc = "collect_by_categories"
    /\ \E t \in Tables : df_raw' = t
    /\ pc' = "check_empty"
    /\ calls' = calls \cup {"collect_by_categories"}
    /\ UNCHANGED <<exit_status, raw_file, data, processed, processed_file, now>>

\* Faulty variant of no_data: len(df_raw) < 0.
no_data_lt0(t) == Len(t) < 0

\* len(df_raw) == 0
no_data(t) == Len(t) = 0

\* if len(df_raw) == 0: print(...); sys.exit(1)
check_empty ==
    /\ pc = "check_empty"
    /\ IF no_data(df_raw)
       THEN pc' = "exit" /\ exit_status' = Some(1)
       ELSE pc' = "save_data" /\ UNCHANGED exit_status
    /\ UNCHANGED <<calls, df_raw, raw_file, data, processed, processed_file, now>>

\* raw_file = extractor.save_data(df_raw)
save_data ==
    /\ pc = "save_data"
    /\ raw_file' = to_csv(df_raw, {"category_name", "published_at"})
    /\ pc' = "load_data"
    /\ calls' = calls \cup {"save_data"}
    /\ UNCHANGED <<exit_status, df_raw, data, processed, processed_file, now>>

\* transformer = DataTransformer(raw_file); transformer.load_data()
\* (pd.read_csv raises EmptyDataError on a file without columns).
load_data ==
    /\ pc = "load_data"
    /\ IF raw_file = <<>>
       THEN pc' = "error" /\ exit_status' = Some(1) /\ UNCHANGED data
       ELSE pc' = "clean_data" /\ data' = read_csv(raw_file) /\ UNCHANGED exit_status
    /\ calls' = calls \cup {"load_data"}
    /\ UNCHANGED <<df_raw, raw_file, processed, processed_file, now>>

\* process_pipeline: self.clean_data(); an exception of pd.to_datetime
\* propagates out of process_pipeline and run_pipeline.
clean_data ==
    /\ pc = "clean_data"
    /\ IF clean_raises(data)
       THEN pc' = "error" /\ exit_status' = Some(1) /\ UNCHANGED data
       ELSE pc' = "calculate_metrics" /\ data' = clean_table(data) /\ UNCHANGED exit_status
    /\ calls' = calls \cup {"clean_data"}
    /\ UNCHANGED <<df_raw, raw_file, processed, processed_file, now>>

\* Faulty variant of metrics_call: df = self.data without .copy(), so the
\* new columns are written into self.data as well.
metrics_call_no_copy(d) ==
    [data      |-> [i \in 1..Len(d) |-> metrics_row(d[i])],
     processed |-> [i \in 1..Len(d) |-> metrics_row(d[i])]]

\* One call of calculate_metrics on a transformer whose self.data is d:
\* df = self.data.copy(); ...; self.processed = df.  The values of
\* self.data and self.processed after the call.
metrics_call(d) ==
    [data      |-> d,
     processed |-> [i \in 1..Len(d) |-> metrics_row(d[i])]]

\* process_pipeline: self.calculate_metrics()
calculate_metrics ==
    /\ pc = "calculate_metrics"
    /\ data' = metrics_call(data).data
    /\ processed' = metrics_call(data).processed
    /\ pc' = "add_features"
    /\ calls' = calls \cup {"calculate_metrics"}
    /\ UNCHANGED <<exit_status, df_raw, raw_file, processed_file, now>>

\* A caller of the transformer invokes calculate_metrics once more, right
\* after the first call and without cleaning again (the method is public
\* and the tests call it directly).
calculate_metrics_again ==
    /\ pc = "add_features"
    /\ "calculate_metrics" \in calls
    /\ data' = metrics_call(data).data
    /\ processed' = metrics_call(data).processed
    /\ calls' = calls \cup {"calculate_metrics_again"}
    /\ UNCHANGED <<pc, exit_status, df_raw, raw_file, processed_file, now>>

\* process_pipeline: self.add_features(); now is sampled once per call.
add_features ==
    /\ pc = "add_features"
    /\ \E h \in NowHours :
        /\ now' = Some(h)
        /\ processed' = [i \in 1..Len(processed) |-> features_row(processed[i], h)]
    /\ pc' = "save_processed"
    /\ calls' = calls \cup {"add_features"}
    /\ UNCHANGED <<exit_status, df_raw, raw_file, data, processed_file>>

\* transformer.save_processed()
save_processed ==
    /\ pc = "save_processed"
    /\ processed_file' = to_csv(processed, {"category_name"})
    /\ pc' = "summary"
    /\ calls' = calls \cup {"save_processed"}
    /\ UNCHANGED <<exit_status, df_raw, raw_file, data, processed, now>>

\* The summary is printed and df_processed returned.
summary ==
    /\ pc = "summary"
    /\ pc' = "done"
    /\ exit_status' = Some(0)
    /\ UNCHANGED <<calls, df_raw, raw_file, data, processed, processed_file, now>>

Next ==
    \/ new_extractor
    \/ collect_by_categories(RawTables)
    \/ check_empty
    \/ save_data
    \/ load_data
    \/ clean_data
    \/ calculate_metrics
    \/ calculate_metrics_again
    \/ add_features
    \/ save_processed
    \/ summary

Spec == Init /\ [][Next]_vars

\* The same pipeline on the single-row tables.
NextRows ==
    \/ new_extractor
    \/ collect_by_categories(RowTables)
    \/ check_empty
    \/ save_data
    \/ load_data
    \/ clean_data
    \/ calculate_metrics
    \/ calculate_metrics_again
    \/ add_features
    \/ save_processed
    \/ summary

SpecRows == Init /\ [][NextRows]_vars

----------------------------------------------------------------------------
(* Properties *)

\* The raw table clean_data was given: what load_data read from the raw file.
Loaded == read_csv(raw_file)

\* clean_data has returned (it did not raise).
CleanReturned == "clean_data" \in calls /\ pc # "error"

MetricsDone == "calculate_metrics" \in calls

FeaturesDone == "add_features" \in calls

\* The tier of the lower-inclusive, upper-exclusive bins
\* [0,10k), [10k,100k), [100k,1M), [1M,10M), [10M,inf).
HalfOpenTier(v) ==
    IF v < 10000 THEN "Micro"
    ELSE IF v < 100000 THEN "Small"
    ELSE IF v < 1000000 THEN "Medium"
    ELSE IF v < 10000000 THEN "Large"
    ELSE "Enterprise"

\* C1: every processed record's channel_tier is the tier of the half-open bin
\* [lower, upper) its view_count (0 included) falls in, so that 10,000 /
\* 100,000 / 1,000,000 / 10,000,000 views get the higher tier, and its
\* tier_multiplier is that tier's multiplier.
C1_ChannelTierHalfOpen ==
    MetricsDone =>
        \A i \in 1..Len(processed) :
            /\ processed[i].channel_tier = HalfOpenTier(Val(processed[i].view_count))
            /\ processed[i].tier_multiplier =
                   tier_multipliers[HalfOpenTier(Val(processed[i].view_count))]

\* The positions in table t of the rows with video_id vid.
RowsOf(t, vid) == {i \in 1..Len(t) : t[i].video_id = vid}

\* The video_ids that two or more rows of t share.
SharedIds(t) == {t[i].video_id : i \in {j \in 1..Len(t) : Cardinality(RowsOf(t, t[j].video_id)) >= 2}}

\* The position of the first row of t with video_id vid.
FirstOf(t, vid) == CHOOSE i \in RowsOf(t, vid) : \A j \in RowsOf(t, vid) : i <= j

\* C2 as claimed: once clean_data has returned, every video_id that two or
\* more raw records share is on exactly one cleaned record, the first
\* occurrence in input order, whatever the durations of the duplicates.
C2_ExactlyOneFirstOccurrence ==
    CleanReturned =>
        \A vid \in SharedIds(Loaded) :
            /\ Cardinality(RowsOf(data, vid)) = 1
            /\ \A i \in RowsOf(data, vid) : data[i].idx = Loaded[FirstOf(Loaded, vid)].idx

\* C2 as amended: once clean_data has returned, a video_id that two or more
\* raw records share is on exactly one cleaned record, the first occurrence,
\* when the first occurrence has duration_seconds > 0, and on no cleaned
\* record otherwise (a later duplicate never stands in for it); when
\* clean_data raises, it emits nothing and leaves the table it was given.
C2_FirstOccurrenceOrNone ==
    /\ CleanReturned =>
        \A vid \in SharedIds(Loaded) :
            LET first == Loaded[FirstOf(Loaded, vid)]
            IN  IF ~isna(first.duration_seconds) /\ Val(first.duration_seconds) > 0
                THEN /\ Cardinality(RowsOf(data, vid)) = 1
                     /\ \A i \in RowsOf(data, vid) :
                            /\ data[i].idx = first.idx
                            /\ data[i].duration_seconds = first.duration_seconds
                ELSE RowsOf(data, vid) = {}
    /\ ("clean_data" \in calls /\ pc = "error") => (data = Loaded /\ processed = <<>>)

\* C2 witness: clean_data has returned on a table whose first record has
\* duration 0 and whose second record, with the same video_id, has duration
\* 240, and the cleaned table holds neither.
C2_Witness ==
    /\ CleanReturned
    /\ Len(Loaded) = 2
    /\ Loaded[1].video_id = Loaded[2].video_id
    /\ Loaded[1].duration_seconds = Some(0)
    /\ Loaded[2].duration_seconds = Some(240)
    /\ data = <<>>

\* C3: clean_data, given a raw record whose published_at cannot be parsed,
\* does not abort: it returns, and the run does not end in an error.
C3_MalformedTimestampDoesNotAbort ==
    ("clean_data" \in calls /\ \E i \in 1..Len(Loaded) : ~parseable(Loaded[i].published_at))
        => (pc # "error" /\ exit_status # Some(1))

\* C4 as claimed: every processed record has ad_ratio <= 100.
C4_AdRatioAtMost100 ==
    MetricsDone => \A i \in 1..Len(processed) : processed[i].ad_ratio <= 100 * 100

\* C4 as amended: every processed record (whole-second duration) has
\* ad_ratio >= 0, and ad_ratio <= 100 exactly when duration_seconds >= 20:
\* the one ad of 20 seconds a shorter video is always given outlasts it.
C4_AdRatioAtMost100IffTwentySeconds ==
    MetricsDone =>
        \A i \in 1..Len(processed) :
            /\ processed[i].ad_ratio >= 0
            /\ (processed[i].ad_ratio <= 100 * 100) <=> (Val(processed[i].duration_seconds) >= 20)

\* C4 witness: a processed record of a 19-second video with ad_ratio above 100.
C4_Witness ==
    /\ MetricsDone
    /\ \E i \in 1..Len(processed) :
        /\ processed[i].duration_seconds = Some(19)
        /\ processed[i].ad_ratio > 100 * 100

\* C5: every processed record has estimated_ads >= 1, and estimated_ads is
\* max(1, ad_density * duration_minutes) rounded to a nearest integer:
\* it differs from that product, floored at 1, by at most one half.
C5_EstimatedAdsAtLeastOne ==
    MetricsDone =>
        \A i \in 1..Len(processed) :
            LET r == processed[i]
                product == r.ad_density * Val(r.duration_seconds)
                unit    == 1000 * 60
                floored == IF product < unit THEN unit ELSE product
            IN  /\ r.estimated_ads >= 1
                /\ 2 * Abs(r.estimated_ads * unit - floored) <= unit

\* C5 witness: a processed record whose ad_density * duration_minutes is
\* below 1 (a 10-second video) and whose estimated_ads is 1.
C5_Witness ==
    /\ MetricsDone
    /\ \E i \in 1..Len(processed) :
        /\ processed[i].duration_seconds = Some(10)
        /\ processed[i].ad_density * 10 < 1000 * 60
        /\ processed[i].estimated_ads = 1

\* C6: every record of the table clean_data returned and stored in
\* self.data, and of every later stage's output (processed table, processed
\* file), has a duration_seconds that is present and > 0.
C6_CleanedDurationPositive ==
    /\ CleanReturned =>
        \A i \in 1..Len(data) :
            ~isna(data[i].duration_seconds) /\ Val(data[i].duration_seconds) > 0
    /\ \A i \in 1..Len(processed) :
            ~isna(processed[i].duration_seconds) /\ Val(processed[i].duration_seconds) > 0
    /\ \A i \in 1..Len(processed_file) :
            ~isna(processed_file[i].duration_seconds)
            /\ Val(processed_file[i].duration_seconds) > 0

\* C6 witness: the table clean_data was given held a record with a missing
\* or zero duration followed by one of 240 seconds; only the second is in
\* the cleaned table and in the processed file.
C6_Witness ==
    /\ CleanReturned
    /\ Len(Loaded) = 2
    /\ Loaded[1].duration_seconds \in {NaN, Some(0)}
    /\ Loaded[2].duration_seconds = Some(240)
    /\ Loaded[1].video_id # Loaded[2].video_id
    /\ Len(data) = 1
    /\ data[1].idx = 1
    /\ Len(processed_file) = 1

\* The category of the lower-inclusive, upper-exclusive bins
\* [0,5), [5,15), [15,30), [30,inf) of duration_minutes.
HalfOpenCategory(seconds) ==
    IF seconds < 5 * 60 THEN "Short"
    ELSE IF seconds < 15 * 60 THEN "Medium"
    ELSE IF seconds < 30 * 60 THEN "Long"
    ELSE "Very Long"

\* C7: every record add_features produced has the duration_category of the
\* half-open bin [lower, upper) its duration_minutes falls in, so that
\* exactly 5, 15 and 30 minutes are Medium, Long and Very Long.
C7_DurationCategoryHalfOpen ==
    FeaturesDone =>
        \A i \in 1..Len(processed) :
            processed[i].duration_category =
                Some(HalfOpenCategory(Val(processed[i].duration_seconds)))

\* C8: every record add_features produced (with a parsed published_at) has
\* views_per_day = round(view_count / max(age_days, 1)), which is never
\* negative, also when age_days is 0 or negative.
C8_ViewsPerDayDenominatorAtLeastOne ==
    FeaturesDone =>
        \A i \in 1..Len(processed) :
            ~isna(processed[i].age_days) =>
                /\ ~isna(processed[i].views_per_day)
                /\ Val(processed[i].views_per_day) >= 0
                /\ Val(processed[i].views_per_day) =
                       RoundHalfEven(Val(processed[i].view_count),
                                     Max(Val(processed[i].age_days), 1))

\* The operations run_pipeline invokes after the check of len(df_raw).
AfterCheck ==
    {"save_data", "load_data", "clean_data", "calculate_metrics", "add_features",
     "save_processed"}

\* C9: when the extraction yields no record, run_pipeline exits with status
\* 1 right after the check: no raw file is saved and none of save_data,
\* load_data, clean_data, calculate_metrics, add_features, save_processed is
\* invoked; in every run that invokes one of them df_raw is non-empty.
C9_FailFastOnEmpty ==
    /\ ("collect_by_categories" \in calls /\ Len(df_raw) = 0) =>
        /\ pc \in {"check_empty", "exit"}
        /\ calls \cap AfterCheck = {}
        /\ raw_file = <<>> /\ data = <<>> /\ processed = <<>> /\ processed_file = <<>>
    /\ pc = "exit" => (Len(df_raw) = 0 /\ exit_status = Some(1))
    /\ (calls \cap AfterCheck # {} \/ pc = "save_data") => Len(df_raw) > 0

\* C9 witness: the extraction yielded no record and the run has exited with
\* status 1.
C9_Witness ==
    /\ "collect_by_categories" \in calls
    /\ Len(df_raw) = 0
    /\ pc = "exit"
    /\ exit_status = Some(1)

\* The rate the claim gives a category_name: the rate table's value for its
\* seven keys, 0.25 for anything else.
ClaimedRate(category_name) ==
    IF category_name = Some("Music") THEN 15
    ELSE IF category_name = Some("Gaming") THEN 25
    ELSE IF category_name = Some("People & Blogs") THEN 22
    ELSE IF category_name = Some("Entertainment") THEN 30
    ELSE IF category_name = Some("News & Politics") THEN 35
    ELSE IF category_name = Some("Sports") THEN 32
    ELSE IF category_name = Some("Science & Technology") THEN 22
    ELSE 25

\* C10: every processed record's base_ad_rate is the rate table's value when
\* its category_name is a key of the table and 0.25 otherwise (Education,
\* Unknown, missing), its ad_density is base_ad_rate * tier_multiplier and is
\* > 0; calculate_metrics never fails on an unmapped category.
C10_BaseAdRateDefault ==
    /\ MetricsDone =>
        \A i \in 1..Len(processed) :
            /\ processed[i].base_ad_rate = ClaimedRate(processed[i].category_name)
            /\ processed[i].ad_density =
                   processed[i].base_ad_rate * processed[i].tier_multiplier
            /\ processed[i].ad_density > 0
    /\ (pc = "add_features" /\ exit_status = NaN) => Len(processed) = Len(data)

\* C10 witness: a processed record whose category_name is Education, or is
\* missing, with base_ad_rate 0.25.
C10_Witness ==
    /\ MetricsDone
    /\ \E i \in 1..Len(processed) :
        /\ processed[i].category_name \in {NaN, Some("Education")}
        /\ processed[i].base_ad_rate = 25
        /\ processed[i].ad_density > 0

\* C11: a call of calculate_metrics leaves the cleaned table self.data as it
\* was, and a second call right after the first (no cleaning in between)
\* leaves self.processed as the first call made it.
C11_CalculateMetricsIdempotent ==
    [][(pc \in {"calculate_metrics", "add_features"} /\ pc' = "add_features") =>
          /\ data' = data
          /\ (pc = "add_features" => processed' = processed)]_vars

\* C11 witness: calculate_metrics has been called a second time on a cleaned
\* table of two records.
C11_Witness ==
    /\ "calculate_metrics_again" \in calls
    /\ pc = "add_features"
    /\ Len(data) = 2
    /\ Len(processed) = 2
    /\ \A i \in 1..2 : processed[i].estimated_ads >= 1 /\ processed[i].idx = data[i].idx

\* The row of the table clean_data was given that has index label k.
LoadedRow(k) == Loaded[CHOOSE j \in 1..Len(Loaded) : Loaded[j].idx = k]

\* C12: in the table clean_data returned no record has a missing
\* view_count, like_count or comment_count: a counter that was missing in
\* the raw record is 0, a counter that was present is as it was.
C12_CountersFilled ==
    CleanReturned =>
        \A i \in 1..Len(data) :
            \A f \in {"view_count", "like_count", "comment_count"} :
                /\ ~isna(data[i][f])
                /\ data[i][f] = IF isna(LoadedRow(data[i].idx)[f])
                                THEN Some(0)
                                ELSE LoadedRow(data[i].idx)[f]

\* C12 witness: clean_data has returned a record whose raw like_count and
\* comment_count were missing and are now 0, and whose view_count, which
\* was present, is unchanged.
C12_Witness ==
    /\ CleanReturned
    /\ \E i \in 1..Len(data) :
        /\ isna(LoadedRow(data[i].idx).like_count)
        /\ isna(LoadedRow(data[i].idx).comment_count)
        /\ data[i].like_count = Some(0)
        /\ data[i].comment_count = Some(0)
        /\ data[i].view_count = Some(1000)

\* C13: every processed record's engagement_rate is
\* (like_count + comment_count) / max(view_count, 1) * 100 rounded to a
\* nearest multiple of 0.001: with view_count 0 the denominator is 1, and
\* the value is always defined and finite.
C13_EngagementRate ==
    MetricsDone =>
        \A i \in 1..Len(processed) :
            LET r   == processed[i]
                den == IF Val(r.view_count) < 1 THEN 1 ELSE Val(r.view_count)
                num == (Val(r.like_count) + Val(r.comment_count)) * 100 * 1000
            IN  /\ r.engagement_rate \in Nat
                /\ 2 * Abs(r.engagement_rate * den - num) <= den

\* C13 witness: a processed record with view_count 0, 100 likes and 10
\* comments, whose engagement_rate is 11000.0.
C13_Witness ==
    /\ MetricsDone
    /\ \E i \in 1..Len(processed) :
        /\ processed[i].view_count = Some(0)
        /\ processed[i].like_count = Some(100)
        /\ processed[i].comment_count = Some(10)
        /\ processed[i].engagement_rate = 11000 * 1000

====
